---------------------------- MODULE Spec2Model ----------------------------
(***************************************************************************)
(* A model of LLMsGenerator (src/llms-txt-generator.py): URL              *)
(* normalisation, scope filter, recursive crawl and the aggregation of    *)
(* llms.txt / llms-full.txt.                                              *)
(*                                                                         *)
(* A Python str is a sequence of one-character strings, so that parsing,  *)
(* stripping and substring tests are computed character by character.     *)
(* Python's 0-based indices are kept: -1 is "not found".                   *)
(***************************************************************************)
EXTENDS Integers, Sequences, FiniteSets, TLC

---------------------------------------------------------------------------
(* str primitives *)

LowerLetters == <<"a","b","c","d","e","f","g","h","i","j","k","l","m",
                  "n","o","p","q","r","s","t","u","v","w","x","y","z">>

UpperLetters == <<"A","B","C","D","E","F","G","H","I","J","K","L","M",
                  "N","O","P","Q","R","S","T","U","V","W","X","Y","Z">>

UpperChars == {UpperLetters[i] : i \in DOMAIN UpperLetters}

AlphaChars == UpperChars \cup {LowerLetters[i] : i \in DOMAIN LowerLetters}

Digits == {"0","1","2","3","4","5","6","7","8","9"}

MinOf(S) == CHOOSE i \in S : \A j \in S : i <= j

MaxOf(S) == CHOOSE i \in S : \A j \in S : i >= j

\* str.lower() on one character
LowerChar(c) ==
    IF c \in UpperChars
    THEN LowerLetters[CHOOSE i \in DOMAIN UpperLetters : UpperLetters[i] = c]
    ELSE c

\* str.lower()
RECURSIVE Lower(_)
Lower(s) ==
    IF s = <<>> THEN <<>> ELSE <<LowerChar(Head(s))>> \o Lower(Tail(s))

\* s[a:b] with Python slice bounds 0 <= a, b <= len(s)
Slice(s, a, b) == IF b <= a THEN <<>> ELSE SubSeq(s, a + 1, b)

\* the Python index of the first (last) of the 1-based hits, -1 if none
FirstOf(hits) == IF hits = {} THEN -1 ELSE MinOf(hits) - 1

LastOf(hits) == IF hits = {} THEN -1 ELSE MaxOf(hits) - 1

\* s.find(c, start)
Find(s, c, start) == FirstOf({i \in DOMAIN s : i - 1 >= start /\ s[i] = c})

\* s.rfind(c)
RFind(s, c) == LastOf({i \in DOMAIN s : s[i] = c})

\* s up to the last (from the first) of the positions kept
KeepTo(s, keep) == IF keep = {} THEN <<>> ELSE SubSeq(s, 1, MaxOf(keep))

KeepFrom(s, keep) ==
    IF keep = {} THEN <<>> ELSE SubSeq(s, MinOf(keep), Len(s))

\* s.rstrip(chars)
RStrip(s, chars) == KeepTo(s, {i \in DOMAIN s : s[i] \notin chars})

\* s.lstrip(chars)
LStrip(s, chars) == KeepFrom(s, {i \in DOMAIN s : s[i] \notin chars})

\* s.strip(chars)
Strip(s, chars) == RStrip(LStrip(s, chars), chars)

\* s.startswith(p)
StartsWith(s, p) == Len(p) <= Len(s) /\ SubSeq(s, 1, Len(p)) = p

\* sub in s
Contains(s, sub) ==
    \E i \in 0..(Len(s) - Len(sub)) : SubSeq(s, i + 1, i + Len(sub)) = sub

\* s.split(c)[-1]
LastField(s, c) == Slice(s, RFind(s, c) + 1, Len(s))

\* s.split(c, 1) at Python index i of c; <<s, "">> when i is -1
CutAt(s, i) ==
    IF i < 0 THEN <<s, <<>>>>
    ELSE <<Slice(s, 0, i), Slice(s, i + 1, Len(s))>>

\* s.split(c)
RECURSIVE SplitOn(_, _)
SplitOn(s, c) ==
    IF c \notin {s[i] : i \in DOMAIN s} THEN <<s>>
    ELSE <<CutAt(s, Find(s, c, 0))[1]>> \o SplitOn(CutAt(s, Find(s, c, 0))[2], c)

\* c.join(parts)
RECURSIVE JoinWith(_, _)
JoinWith(parts, c) ==
    IF parts = <<>> THEN <<>>
    ELSE IF Len(parts) = 1 THEN parts[1]
    ELSE parts[1] \o <<c>> \o JoinWith(Tail(parts), c)

---------------------------------------------------------------------------
(* urllib.parse, as used by the generator *)

HTTP == <<"h","t","t","p">>

HTTPS == <<"h","t","t","p","s">>

\* the members of urllib's uses_params, uses_netloc and uses_relative that
\* the URLs of the model can carry: all three lists hold "", http and https
UsesParams == {<<>>, HTTP, HTTPS}

UsesNetloc == {<<>>, HTTP, HTTPS}

UsesRelative == {<<>>, HTTP, HTTPS}

SchemeChars == AlphaChars \cup Digits \cup {"+", "-", "."}

\* urlsplit: the scheme is url[:i] when i = url.find(':') > 0, url starts
\* with a letter and url[:i] holds scheme characters only: <<scheme, rest>>
SchemeAt(url, i) ==
    IF /\ i > 0
       /\ url[1] \in AlphaChars
       /\ \A k \in 1..i : url[k] \in SchemeChars
    THEN <<Lower(Slice(url, 0, i)), Slice(url, i + 1, Len(url))>>
    ELSE <<<<>>, url>>

\* _splitnetloc(url, 2): the authority ends at the earliest of / ? #
NetlocEnd(url) ==
    MinOf({Len(url)}
          \cup ({Find(url, c, 2) : c \in {"/", "?", "#"}} \ {-1}))

\* urlsplit: <<netloc, rest>> of what follows the scheme
NetlocAt(url, delim) == <<Slice(url, 2, delim), Slice(url, delim, Len(url))>>

SplitNetloc(url) ==
    IF StartsWith(url, <<"/", "/">>) THEN NetlocAt(url, NetlocEnd(url))
    ELSE <<<<>>, url>>

\* urlsplit, stage by stage: t is <<scheme, rest>>, then <<scheme, netloc,
\* rest>>, then <<scheme, netloc, rest, fragment>>
SplitStage2(t) == <<t[1]>> \o SplitNetloc(t[2])

SplitStage3(t) == <<t[1], t[2]>> \o CutAt(t[3], Find(t[3], "#", 0))

SplitStage4(t) ==
    [scheme   |-> t[1],
     netloc   |-> t[2],
     path     |-> CutAt(t[3], Find(t[3], "?", 0))[1],
     query    |-> CutAt(t[3], Find(t[3], "?", 0))[2],
     fragment |-> t[4]]

\* urlsplit(url)
urlsplit(url) ==
    SplitStage4(SplitStage3(SplitStage2(SchemeAt(url, Find(url, ":", 0)))))

\* urlsplit raises ValueError("Invalid IPv6 URL"): the netloc holds one of
\* the brackets without the other
UnbalancedBrackets(netloc) ==
    Contains(netloc, <<"[">>) # Contains(netloc, <<"]">>)

SplitRaises(url) ==
    UnbalancedBrackets(SplitStage2(SchemeAt(url, Find(url, ":", 0)))[2])

\* urljoin(base, url) parses both of its arguments unless one is empty
JoinRaises(base, url) ==
    base # <<>> /\ url # <<>> /\ (SplitRaises(base) \/ SplitRaises(url))

\* _splitparams(url): <<path, params>>
splitparams(url) ==
    CutAt(url, IF "/" \in {url[i] : i \in DOMAIN url}
               THEN Find(url, ";", RFind(url, "/"))
               ELSE Find(url, ";", 0))

\* urlparse on the result s of urlsplit, with the scheme that applies
ParseSplit(s, scheme, pp) ==
    [scheme |-> scheme, netloc |-> s.netloc, path |-> pp[1],
     params |-> pp[2], query |-> s.query, fragment |-> s.fragment]

ParamsOf(path, scheme) ==
    IF scheme \in UsesParams /\ ";" \in {path[i] : i \in DOMAIN path}
    THEN splitparams(path)
    ELSE <<path, <<>>>>

ParseWithScheme(s, scheme) == ParseSplit(s, scheme, ParamsOf(s.path, scheme))

ParseDefault(s, default) ==
    ParseWithScheme(s, IF s.scheme = <<>> THEN default ELSE s.scheme)

\* urlparse(url, scheme): the default scheme stands in when url has none
urlparseWith(url, default) == ParseDefault(urlsplit(url), default)

\* urlparse(url)
urlparse(url) == urlparseWith(url, <<>>)

\* urlunsplit, stage by stage
WithAuthority(scheme, netloc, url) ==
    IF \/ netloc # <<>>
       \/ /\ scheme # <<>>
          /\ scheme \in UsesNetloc
          /\ ~StartsWith(url, <<"/", "/">>)
    THEN <<"/", "/">> \o netloc
         \o (IF url # <<>> /\ url[1] # "/" THEN <<"/">> ELSE <<>>) \o url
    ELSE url

WithScheme(scheme, url) ==
    IF scheme # <<>> THEN scheme \o <<":">> \o url ELSE url

WithSuffix(url, mark, part) ==
    IF part # <<>> THEN url \o <<mark>> \o part ELSE url

\* urlunparse((scheme, netloc, path, params, query, fragment))
urlunparse(scheme, netloc, path, params, query, fragment) ==
    WithSuffix(
        WithSuffix(
            WithScheme(scheme,
                WithAuthority(scheme, netloc, WithSuffix(path, ";", params))),
            "?", query),
        "#", fragment)

\* urlunparse of a parsed URL
Unparse(u) ==
    urlunparse(u.scheme, u.netloc, u.path, u.params, u.query, u.fragment)

\* urljoin's loop over the merged segments: .. pops, . is dropped
RECURSIVE ResolveSegments(_, _)
ResolveSegments(segments, resolved) ==
    IF segments = <<>> THEN resolved
    ELSE ResolveSegments(Tail(segments),
            IF Head(segments) = <<".", ".">>
            THEN SubSeq(resolved, 1, Len(resolved) - 1)
            ELSE IF Head(segments) = <<".">> THEN resolved
            ELSE Append(resolved, Head(segments)))

\* segments[1:-1] = filter(None, segments[1:-1])
DropEmptyInner(segments) ==
    IF Len(segments) <= 2 THEN segments
    ELSE <<segments[1]>>
         \o SelectSeq(SubSeq(segments, 2, Len(segments) - 1),
                      LAMBDA g : g # <<>>)
         \o <<segments[Len(segments)]>>

\* base_parts: bpath.split('/') without a last item that is no directory
BaseParts(parts) ==
    IF parts[Len(parts)] # <<>> THEN SubSeq(parts, 1, Len(parts) - 1)
    ELSE parts

\* the segments urljoin resolves
MergedSegments(bpath, path) ==
    IF StartsWith(path, <<"/">>) THEN SplitOn(path, "/")
    ELSE DropEmptyInner(BaseParts(SplitOn(bpath, "/")) \o SplitOn(path, "/"))

\* '/'.join(resolved_path) or '/'
ResolvedPath(segments) ==
    IF JoinWith(ResolveSegments(segments, <<>>)
                \o (IF segments[Len(segments)] \in {<<".">>, <<".", ".">>}
                    THEN <<<<>>>> ELSE <<>>), "/") = <<>>
    THEN <<"/">>
    ELSE JoinWith(ResolveSegments(segments, <<>>)
                \o (IF segments[Len(segments)] \in {<<".">>, <<".", ".">>}
                    THEN <<<<>>>> ELSE <<>>), "/")

\* urljoin, on the parsed base b and the parsed url u
JoinParsed(b, u, url) ==
    IF u.scheme # b.scheme \/ u.scheme \notin UsesRelative THEN url
    ELSE IF u.scheme \in UsesNetloc /\ u.netloc # <<>> THEN Unparse(u)
    ELSE IF u.path = <<>> /\ u.params = <<>>
    THEN urlunparse(u.scheme,
                    IF u.scheme \in UsesNetloc THEN b.netloc ELSE u.netloc,
                    b.path, b.params,
                    IF u.query = <<>> THEN b.query ELSE u.query,
                    u.fragment)
    ELSE urlunparse(u.scheme,
                    IF u.scheme \in UsesNetloc THEN b.netloc ELSE u.netloc,
                    ResolvedPath(MergedSegments(b.path, u.path)),
                    u.params, u.query, u.fragment)

JoinOnBase(b, url) == JoinParsed(b, urlparseWith(url, b.scheme), url)

\* urljoin(base, url)
urljoin(base, url) ==
    IF base = <<>> THEN url
    ELSE IF url = <<>> THEN base
    ELSE JoinOnBase(urlparse(base), url)

---------------------------------------------------------------------------
(* LLMsGenerator: state and pure methods *)

VARIABLES
    base_url,       \* self.base_url
    domain,         \* self.domain
    ignore_paths,   \* self.ignore_paths
    delay,          \* self.delay, in seconds
    visited_urls,   \* self.visited_urls
    site_data,      \* self.site_data
    fs,             \* the files under self.output_dir: path -> content
    stack,          \* the _crawl frames that are inside their link loop
    status,         \* where generate() is: new, crawling, done, aborted
    log,            \* the calls _fetch_page made: time.sleep and requests.get
    llms_txt,       \* the lines written to llms.txt
    llms_full,      \* the entries written to llms-full.txt
    last,           \* what the latest step did, and to which URL
    site,           \* the web site: the pages it serves, the hrefs they carry
    probe,          \* the argument of a method applied on its own
    answer          \* and what the method returned

vars == <<base_url, domain, ignore_paths, delay, visited_urls, site_data, fs,
          stack, status, log, last, llms_txt, llms_full, site, probe, answer>>

configVars == <<base_url, domain, ignore_paths, delay, site>>

SafeNameChars == AlphaChars \cup Digits \cup {"-"}

IndexMd == <<"i","n","d","e","x",".","m","d">>

MdSuffix == <<".","m","d">>

\* re.sub(r'[^a-zA-Z0-9-]', '-', path)
RECURSIVE HyphenateUnsafe(_)
HyphenateUnsafe(s) ==
    IF s = <<>> THEN <<>>
    ELSE <<IF Head(s) \in SafeNameChars THEN Head(s) ELSE "-">>
         \o HyphenateUnsafe(Tail(s))

\* _sanitize_filename, on parsed.path.strip('/')
SafeName(path) ==
    IF path = <<>> THEN IndexMd
    ELSE RStrip(HyphenateUnsafe(path), {"-", "_"}) \o MdSuffix

\* _sanitize_filename(url)
_sanitize_filename(url) == SafeName(Strip(urlparse(url).path, {"/"}))

BlockedExtensions ==
    {<<"p","n","g">>, <<"j","p","g">>, <<"p","d","f">>, <<"c","s","s">>,
     <<"j","s">>}

\* _is_valid_url, on parsed = urlparse(url), for a generator with this
\* domain and these ignore_paths
ValidParsed(url, parsed, dom, ignored) ==
    /\ parsed.netloc = dom
    /\ ~\E p \in ignored : StartsWith(url, p)
    /\ LastField(parsed.path, ".") \notin BlockedExtensions

\* _is_valid_url(url)
\* the filter with the host comparison of line 47 left out
ValidOnAnyHost(url) ==
    ValidParsed(url, urlparse(url), urlparse(url).netloc, ignore_paths)

_is_valid_url(url) == ValidParsed(url, urlparse(url), domain, ignore_paths)

\* _normalize_url, on parsed = urlparse(url)
NormalizeParsed(parsed) ==
    urlunparse(parsed.scheme, parsed.netloc,
               RStrip(parsed.path, {"/"}) \o <<"/">>, <<>>, <<>>, <<>>)

\* _normalize_url(url)
_normalize_url(url) == NormalizeParsed(urlparse(url))

\* _is_new_page(url)
_is_new_page(url) == _normalize_url(url) \notin visited_urls

---------------------------------------------------------------------------
(* The site being crawled: what requests.get and BeautifulSoup hand back *)

\* the most links one page carries
MaxLinks == 2

Whitespace == {" ", "\t", "\n", "\r"}

\* requests.get failed, raise_for_status raised, or the body was empty:
\* _fetch_page returns ""
NoContent == [title |-> "failed", meta |-> "failed", root |-> "failed"]

\* a parsed page: its <title> (absent, empty, text), its description <meta>
\* (absent, nocontent, content) and its body root (main, body, none)
PageShapes ==
    [title : {"absent", "empty", "text"},
     meta  : {"absent", "nocontent", "content"},
     root  : {"main", "body", "none"}]

CompletePage == [title |-> "text", meta |-> "content", root |-> "main"]

\* the pages a site may serve: the complete page, and every page that
\* departs from it in one of the three elements
Pages ==
    {p \in PageShapes :
        Cardinality({f \in {"title", "meta", "root"} :
                        p[f] # CompletePage[f]}) <= 1}

\* what _fetch_page(url) can return
Responses == {NoContent} \cup site.pages

\* the text of the page's <title>, when it has one: the server titles a page
\* by its address, with leading white space
TitleString(url) == <<" ">> \o url

\* the content attribute of the description <meta>, when it has one
MetaContent == <<"D">>

\* md(str(main_content))
Markdownify(root) == IF root = "main" THEN <<"M">> ELSE <<"B">>

\* soup.title.string.strip() raises AttributeError when <title> holds no text
TitleRaises(page) == page.title = "empty"

\* ...find('meta', ...)['content'] raises KeyError without the attribute
MetaRaises(page) == page.meta = "nocontent"

\* soup.title.string.strip()
TitleText(url) == Strip(TitleString(url), Whitespace)

\* _convert_to_markdown(html, url), for a page whose title does not raise
_convert_to_markdown(page, url) ==
    IF page.root = "none" THEN <<>>
    ELSE <<"#", " ">>
         \o (IF page.title = "text" THEN TitleText(url) ELSE url)
         \o <<"\n", "\n">> \o Markdownify(page.root)

\* the dict with the normalized URL for 'url' (`url = normalized_url`)
PageRecordOfKey(page, url, filename) ==
    [url         |-> _normalize_url(url),
     md_path     |-> filename,
     title       |-> IF page.title = "text" THEN TitleText(url) ELSE filename,
     description |-> IF page.meta = "content" THEN MetaContent ELSE <<>>]

\* the dict _crawl appends to site_data, for a page that does not raise
PageRecord(page, url, filename) ==
    [url         |-> url,
     md_path     |-> filename,
     title       |-> IF page.title = "text" THEN TitleText(url) ELSE filename,
     description |-> IF page.meta = "content" THEN MetaContent ELSE <<>>]

\* os.path.join(self.output_dir, 'markdown', filename)
MarkdownPath(filename) == <<"markdown", filename>>

\* os.path.join(self.output_dir, md_path)
OutputPath(md_path) == <<".", md_path>>

\* open(path, 'w').write(content)
WriteFile(files, path, content) ==
    [q \in DOMAIN files \cup {path} |->
        IF q = path THEN content ELSE files[q]]

\* what a step did: constructed, revisit (the visited check returned),
\* failed (no content), raised (an exception of the extraction), recorded,
\* unresolved (urljoin could not parse the link), rejected (by the filter),
\* returned, finished
Did(what, url) == [did |-> what, url |-> url]

\* time.sleep(self.delay)
SleepEvent ==
    [op |-> "sleep", url |-> <<>>, ok |-> TRUE, parent |-> <<>>, idx |-> 0,
     secs |-> delay, marked |-> FALSE]

\* requests.get(url, timeout=10, ...), called when self.visited_urls is the
\* set visited: marked tells whether the key of url is in it by then
GetEvent(url, ok, parent, idx, visited) ==
    [op |-> "get", url |-> url, ok |-> ok, parent |-> parent, idx |-> idx,
     secs |-> 10, marked |-> _normalize_url(url) \in visited]

\* _fetch_page with the delay after the request instead of before it
FetchLogDelayAfter(url, ok, parent, idx, visited) ==
    <<GetEvent(url, ok, parent, idx, visited), SleepEvent>>

\* _fetch_page(url): the delay, then one request
FetchLog(url, ok, parent, idx, visited) ==
    <<SleepEvent, GetEvent(url, ok, parent, idx, visited)>>

\* _crawl past `if not html: return`: the markdown file, the record and the
\* link loop; an exception ends generate()
CrawlParsed(html, url, filename, ret, st) ==
    IF TitleRaises(html)
    THEN /\ stack' = <<>>
         /\ status' = "aborted"
         /\ last' = Did("raised", url)
         /\ UNCHANGED <<site_data, fs>>
    ELSE /\ fs' = WriteFile(fs, MarkdownPath(filename),
                            _convert_to_markdown(html, url))
         /\ IF MetaRaises(html)
            THEN /\ stack' = <<>>
                 /\ status' = "aborted"
                 /\ last' = Did("raised", url)
                 /\ UNCHANGED site_data
            ELSE /\ site_data' = Append(site_data,
                                        PageRecord(html, url, filename))
                 /\ stack' = Append(ret, [url |-> url, n |-> 0])
                 /\ status' = st
                 /\ last' = Did("recorded", url)

\* _crawl without `if not html: return`: the empty page is recorded and its
\* link loop entered
CrawlPageUnchecked(html, url, filename, ret, st) ==
    IF html = NoContent
    THEN /\ site_data' = Append(site_data, PageRecord(html, url, filename))
         /\ stack' = Append(ret, [url |-> url, n |-> 0])
         /\ status' = st
         /\ last' = Did("failed", url)
         /\ UNCHANGED fs
    ELSE CrawlParsed(html, url, filename, ret, st)

\* _crawl after _fetch_page returned html: nothing for "", else the markdown
\* file, the record and the link loop
CrawlPage(html, url, filename, ret, st) ==
    IF html = NoContent
    THEN /\ stack' = ret
         /\ status' = st
         /\ last' = Did("failed", url)
         /\ UNCHANGED <<site_data, fs>>
    ELSE CrawlParsed(html, url, filename, ret, st)

\* _crawl(url) from its call of _fetch_page on, self.visited_urls being the
\* set visited by then
CrawlFetch(url, visited, ret, st, parent, idx) ==
    \E html \in Responses :
        /\ log' = log \o FetchLog(url, html # NoContent, parent, idx, visited)
        /\ CrawlPage(html, url, _sanitize_filename(url), ret, st)

\* _crawl with self.visited_urls.add moved below the call of _fetch_page
CrawlFetchFirst(url, normalized_url, ret, st, parent, idx) ==
    IF ~_is_new_page(normalized_url)
    THEN /\ stack' = ret
         /\ status' = st
         /\ last' = Did("revisit", url)
         /\ UNCHANGED <<visited_urls, site_data, fs, log>>
    ELSE /\ visited_urls' = visited_urls \cup {normalized_url}
         /\ CrawlFetch(url, visited_urls, ret, st, parent, idx)

\* _crawl(url) from its visited check on, normalized_url being computed
CrawlNormalized(url, normalized_url, ret, st, parent, idx) ==
    IF ~_is_new_page(normalized_url)
    THEN /\ stack' = ret
         /\ status' = st
         /\ last' = Did("revisit", url)
         /\ UNCHANGED <<visited_urls, site_data, fs, log>>
    ELSE /\ visited_urls' = visited_urls \cup {normalized_url}
         /\ CrawlFetch(url, visited_urls \cup {normalized_url},
                       ret, st, parent, idx)

\* _crawl keyed on the URL as given instead of its normalized form
CrawlRawKey(url, ret, st, parent, idx) ==
    CrawlNormalized(url, url, ret, st, parent, idx)

\* the body of _crawl(url) up to its link loop.  ret is the stack the call
\* returns to, st the status generate() is in while it runs; parent and idx
\* say which link of which page made the call (the seed: none, 0).
Crawl(url, ret, st, parent, idx) ==
    CrawlNormalized(url, _normalize_url(url), ret, st, parent, idx)

---------------------------------------------------------------------------
(* generate(): classification and the two documents *)

Keywords ==
    {<<"d","o","c">>, <<"g","u","i","d","e">>, <<"a","p","i">>,
     <<"h","e","l","p">>}

\* any(kw in lowered for kw in ['doc', 'guide', 'api', 'help'])
\* all() in place of any()
HasEveryKeyword(lowered) == \A kw \in Keywords : Contains(lowered, kw)

HasKeyword(lowered) == \E kw \in Keywords : Contains(lowered, kw)

\* the keyword test without .lower()
IsCoreUrlCaseSensitive(url) == HasKeyword(url)

\* any(kw in page['url'].lower() for kw in ...)
IsCoreUrl(url) == HasKeyword(Lower(url))

\* the loop that fills core_docs and optional_docs: <<core, optional>>
RECURSIVE Classify(_, _, _)
Classify(pages, core_docs, optional_docs) ==
    IF pages = <<>> THEN <<core_docs, optional_docs>>
    ELSE IF IsCoreUrl(Head(pages).url)
    THEN Classify(Tail(pages), Append(core_docs, Head(pages)), optional_docs)
    ELSE Classify(Tail(pages), core_docs, Append(optional_docs, Head(pages)))

SiteHeading(dom) == <<"#", " ">> \o dom

Blurb ==
    <<">"," ","A","I","-","f","r","i","e","n","d","l","y"," ","d","o","c",
      "u","m","e","n","t","a","t","i","o","n"," ","g","e","n","e","r","a",
      "t","e","d"," ","b","y"," ","L","L","M","s",".","t","x","t"," ","G",
      "e","n","e","r","a","t","o","r","\n">>

CoreHeading ==
    <<"#","#"," ","C","o","r","e"," ","D","o","c","u","m","e","n","t","a",
      "t","i","o","n">>

OptionalHeading == <<"\n","#","#"," ","O","p","t","i","o","n","a","l">>

\* f"- [{doc['title']}]({md_url}): {doc['description']}"
Bullet(doc, base) ==
    <<"-", " ", "[">> \o doc.title \o <<"]", "(">>
    \o RStrip(base, {"/"}) \o <<"/">> \o doc.md_path
    \o <<")", ":", " ">> \o doc.description

\* the bullets with the os.path.exists test of the full document applied
\* to the index as well
RECURSIVE BulletsOfStored(_, _)
BulletsOfStored(docs, base) ==
    IF docs = <<>> THEN <<>>
    ELSE (IF OutputPath(Head(docs).md_path) \in DOMAIN fs
          THEN <<Bullet(Head(docs), base)>> ELSE <<>>)
         \o BulletsOfStored(Tail(docs), base)

RECURSIVE Bullets(_, _)
Bullets(docs, base) ==
    IF docs = <<>> THEN <<>>
    ELSE <<Bullet(Head(docs), base)>> \o Bullets(Tail(docs), base)

\* a section whose heading is appended outside the `if docs:` test
SectionAlwaysHeaded(heading, docs, base) ==
    <<heading>> \o Bullets(docs, base)

\* a section of llms_txt: nothing for an empty group
Section(heading, docs, base) ==
    IF docs # <<>> THEN <<heading>> \o Bullets(docs, base) ELSE <<>>

\* the list llms_txt, from <<core_docs, optional_docs>>
IndexOfGroups(groups, dom, base) ==
    <<SiteHeading(dom), Blurb>>
    \o Section(CoreHeading, groups[1], base)
    \o Section(OptionalHeading, groups[2], base)

\* the list llms_txt
IndexLines(pages, dom, base) ==
    IndexOfGroups(Classify(pages, <<>>, <<>>), dom, base)

\* f"# {doc['title']}\n\n{f.read()}\n\n---\n"
FullEntry(title, content) ==
    <<"#", " ">> \o title \o <<"\n", "\n">> \o content
    \o <<"\n", "\n", "-", "-", "-", "\n">>

\* the file generate() reads for a record
RecordPath(doc) == OutputPath(doc.md_path)

\* the entry of one record: none unless os.path.exists(md_path)
EntryAt(doc, md_path, files) ==
    IF md_path \in DOMAIN files
    THEN <<FullEntry(doc.title, files[md_path])>> ELSE <<>>

\* the list llms_full
RECURSIVE FullEntries(_, _)
FullEntries(pages, files) ==
    IF pages = <<>> THEN <<>>
    ELSE EntryAt(Head(pages), RecordPath(Head(pages)), files)
         \o FullEntries(Tail(pages), files)

---------------------------------------------------------------------------
(* A crawl run *)

SiteRoot == HTTP \o <<":","/","/","s","/">>

SiteScript == HTTP \o <<":","/","/","s","/","A","P","I",".","j","s">>

IgnoredB == HTTP \o <<":","/","/","s","/","b">>

\* the href values the site's pages carry
Hrefs ==
    {SiteRoot,
     <<"/","d","o","c">>,
     HTTP \o <<":","/","/","s","/","d","o","c","/","?","q">>,
     <<"/","b","#","f">>,
     HTTP \o <<":","/","/","x","/","d","o","c">>,
     <<"/","A","P","I",".","j","s">>}

\* an href whose authority opens a bracket and never closes it
OpenBracket == HTTP \o <<":","/","/","[">>

\* a site of complete pages that link every way, and a site of two links
\* whose pages may each lack an element
LinkedSite == [pages |-> {CompletePage}, hrefs |-> Hrefs]

DegradedSite ==
    [pages |-> Pages,
     hrefs |-> {<<"/","d","o","c">>, <<"/","b","#","f">>, OpenBracket}]

\* what the output directory holds before the run
NoFiles == [q \in {} |-> <<>>]

StaleIndex == [q \in {OutputPath(IndexMd)} |-> <<"o","l","d">>]

\* --delay when the command line gives none, in seconds
DefaultDelay == 1

\* the runs: the url argument of the command line, its --ignore and --delay
\* arguments, the output directory the run finds and the site it crawls
Runs ==
    {[url |-> SiteRoot,   ignore |-> {},         dir |-> NoFiles,
      web |-> LinkedSite,   delay |-> DefaultDelay],
     [url |-> SiteRoot,   ignore |-> {IgnoredB}, dir |-> NoFiles,
      web |-> LinkedSite,   delay |-> 2],
     [url |-> SiteScript, ignore |-> {},         dir |-> NoFiles,
      web |-> LinkedSite,   delay |-> 0],
     [url |-> SiteRoot,   ignore |-> {},         dir |-> NoFiles,
      web |-> DegradedSite, delay |-> DefaultDelay],
     [url |-> SiteRoot,   ignore |-> {},         dir |-> StaleIndex,
      web |-> DegradedSite, delay |-> DefaultDelay]}

\* __init__(base_url, output_dir, ignore_paths, delay)
Constructed(url, ignored, secs) ==
    /\ base_url = RStrip(url, {"/"})
    /\ domain = urlparse(url).netloc
    /\ ignore_paths = ignored
    /\ delay = secs
    /\ visited_urls = {}
    /\ site_data = <<>>
    /\ stack = <<>>
    /\ status = "new"
    /\ log = <<>>
    /\ last = Did("constructed", url)
    /\ llms_txt = <<>>
    /\ llms_full = <<>>

Init ==
    /\ \E run \in Runs :
         /\ Constructed(run.url, run.ignore, run.delay)
         /\ fs = run.dir
         /\ site = run.web
    /\ probe = <<>>
    /\ answer = <<>>

\* generate(), to its call of _crawl(self.base_url)
Generate_Start ==
    /\ status = "new"
    /\ Crawl(base_url, <<>>, "crawling", <<>>, 0)
    /\ UNCHANGED <<configVars, llms_txt, llms_full, probe, answer>>

\* the stack once the innermost link loop has taken one more link
Advanced(stk) == [stk EXCEPT ![Len(stk)].n = @ + 1]

\* one link of the innermost page: the filter, then the recursive call
FollowLink(frame, absolute_url) ==
    IF _is_valid_url(absolute_url)
    THEN Crawl(absolute_url, Advanced(stack), status, frame.url, frame.n + 1)
    ELSE /\ stack' = Advanced(stack)
         /\ last' = Did("rejected", absolute_url)
         /\ UNCHANGED <<visited_urls, site_data, fs, status, log>>

\* urljoin(url, link['href']) and what follows it: the ValueError of urljoin
\* is caught nowhere and ends generate()
ResolveLink(frame, href) ==
    IF JoinRaises(frame.url, href)
    THEN /\ stack' = <<>>
         /\ status' = "aborted"
         /\ last' = Did("unresolved", href)
         /\ UNCHANGED <<visited_urls, site_data, fs, log>>
    ELSE FollowLink(frame, urljoin(frame.url, href))

\* the link loops served first come, first served: the next link is taken
\* from the page that was recorded first, not from the innermost one
Crawl_LinkOutermost ==
    /\ status = "crawling"
    /\ stack # <<>>
    /\ stack[1].n < MaxLinks
    /\ \E href \in site.hrefs : ResolveLink(stack[1], href)
    /\ UNCHANGED <<configVars, llms_txt, llms_full, probe, answer>>

\* one turn of the link loop of the innermost _crawl: urljoin, the filter,
\* and the recursive call
Crawl_Link ==
    /\ status = "crawling"
    /\ stack # <<>>
    /\ stack[Len(stack)].n < MaxLinks
    /\ \E href \in site.hrefs : ResolveLink(stack[Len(stack)], href)
    /\ UNCHANGED <<configVars, llms_txt, llms_full, probe, answer>>

\* the link loop of the innermost _crawl is exhausted: the call returns
Crawl_Return ==
    /\ status = "crawling"
    /\ stack # <<>>
    /\ stack' = SubSeq(stack, 1, Len(stack) - 1)
    /\ last' = Did("returned", stack[Len(stack)].url)
    /\ UNCHANGED <<configVars, visited_urls, site_data, fs, status, log,
                   llms_txt, llms_full, probe, answer>>

\* generate(), after _crawl returned: llms.txt and llms-full.txt
Generate_Finish ==
    /\ status = "crawling"
    /\ stack = <<>>
    /\ llms_txt' = IndexLines(site_data, domain, base_url)
    /\ llms_full' = FullEntries(site_data, fs)
    /\ status' = "done"
    /\ last' = Did("finished", base_url)
    /\ UNCHANGED <<configVars, visited_urls, site_data, fs, stack, log,
                   probe, answer>>

Next ==
    \/ Generate_Start
    \/ Crawl_Link
    \/ Crawl_Return
    \/ Generate_Finish

Spec == Init /\ [][Next]_vars

---------------------------------------------------------------------------
(* Methods applied on their own, to arguments drawn from bounded sets *)

\* the strings over an alphabet, up to a length
Words(alphabet, n) == UNION {[1..k -> alphabet] : k \in 0..n}

\* s.endswith(p)
EndsWith(s, p) ==
    Len(p) <= Len(s) /\ SubSeq(s, Len(s) - Len(p) + 1, Len(s)) = p

\* a generator as constructed for the site root, nothing crawled yet
Idle ==
    /\ Constructed(SiteRoot, {}, DefaultDelay)
    /\ fs = NoFiles
    /\ site = LinkedSite
    /\ answer = <<>>

pureVars == <<base_url, domain, ignore_paths, delay, visited_urls, site_data,
              fs, stack, status, log, last, llms_txt, llms_full, site, probe>>

\* the longest path of a normalised URL, past its leading slash
MaxPathLen == 2

Origin == HTTP \o <<":","/","/","s">>

\* the paths of the URLs normalised: empty, or a slash and a word
ProbePaths ==
    {<<>>} \cup {<<"/">> \o w : w \in Words({"a", "/", ";"}, MaxPathLen)}

\* the same path, or the path with a trailing slash it did not have
SlashVariants(path) ==
    {path} \cup (IF EndsWith(path, <<"/">>) THEN {} ELSE {path \o <<"/">>})

QueryParts == {<<>>, <<"?","q">>}

FragmentParts == {<<>>, <<"#","f">>}

\* pairs of URLs that differ in nothing but the fragment, the query string
\* and the presence of a trailing slash on the path
NormalizeProbes ==
    {<<Origin \o p1 \o q1 \o f1, Origin \o p2 \o q2 \o f2>> :
        <<p1, p2>> \in {<<p, v>> \in ProbePaths \X ProbePaths :
                           v \in SlashVariants(p)},
        <<q1, q2>> \in QueryParts \X QueryParts,
        <<f1, f2>> \in FragmentParts \X FragmentParts}

InitNormalize == Idle /\ probe \in NormalizeProbes

\* _normalize_url applied to both URLs of the pair
Normalize_Apply ==
    /\ answer = <<>>
    /\ answer' = <<_normalize_url(probe[1]), _normalize_url(probe[2])>>
    /\ UNCHANGED pureVars

NextNormalize == Normalize_Apply

SpecNormalize == InitNormalize /\ [][NextNormalize]_vars

\* the longest stem of a filtered URL's path
MaxStemLen == 2

ProbeOrigins ==
    {HTTP \o <<":","/","/","s">>, HTTP \o <<":","/","/","x">>,
     HTTP \o <<":","/","/","s",".","x">>}

ProbeExtensions ==
    {<<>>} \cup {<<".">> \o e : e \in BlockedExtensions}
    \cup {<<".","h","t","m","l">>, <<".","P","N","G">>, <<".","j","s","x">>}

ProbeTails == {<<>>, <<"?","x",".","j","s">>, <<"#","a",".","p","n","g">>}

\* the URLs filtered: an origin, a path of a stem and an extension, a tail
ScopeProbes ==
    {o \o <<"/">> \o w \o e \o t :
        o \in ProbeOrigins, w \in Words({"b", "/", ";", "."}, MaxStemLen),
        e \in ProbeExtensions, t \in ProbeTails}

InitScope ==
    /\ \E ignored \in {{}, {IgnoredB}} : Constructed(SiteRoot, ignored, DefaultDelay)
    /\ fs = NoFiles
    /\ site = LinkedSite
    /\ answer = <<>>
    /\ probe \in ScopeProbes

\* _is_valid_url applied to the URL
Scope_Apply ==
    /\ answer = <<>>
    /\ answer' = <<_is_valid_url(probe)>>
    /\ UNCHANGED pureVars

NextScope == Scope_Apply

SpecScope == InitScope /\ [][NextScope]_vars

DocsApiIntro == <<"d","o","c","s","/","a","p","i","/","i","n","t","r","o">>

BlogPost == <<"b","l","o","g","/","2","0","2","4","/","p","o","s","t">>

\* the URLs classified: either of the two paths, under several schemes,
\* hosts and directories and with several tails
ClassifyProbes ==
    {sch \o <<":","/","/">> \o host \o dir \o mid \o tail :
        sch \in {HTTP, HTTPS},
        host \in {<<"s">>, <<"d","o","c","s",".","s">>, <<"x",".","i","o">>},
        dir \in {<<"/">>, <<"/","H","e","l","p","/">>},
        mid \in {DocsApiIntro, BlogPost},
        tail \in {<<>>, <<"/","x">>, <<"?","g","u","i","d","e">>,
                  <<"#","A","P","I">>, <<"?","q","=","1">>}}

InitClassify == Idle /\ probe \in ClassifyProbes

\* the classification loop of generate() run on the one record of the URL:
\* the group that receives it
GroupOf(groups) == IF groups[1] # <<>> THEN "core" ELSE "optional"

Classify_Apply ==
    /\ answer = <<>>
    /\ answer' = <<GroupOf(Classify(
                     <<PageRecord(CompletePage, probe,
                                  _sanitize_filename(probe))>>,
                     <<>>, <<>>))>>
    /\ UNCHANGED pureVars

NextClassify == Classify_Apply

SpecClassify == InitClassify /\ [][NextClassify]_vars

\* the longest path of a URL whose file name is computed
MaxNameLen == 3

\* URLs of the site whose path is empty or a slash and a word
SanitizeProbes ==
    {Origin} \cup
    {Origin \o <<"/">> \o w :
        w \in Words({"a", "Z", "7", "-", "_", "/", "~"}, MaxNameLen)}

InitSanitize == Idle /\ probe \in SanitizeProbes

\* _sanitize_filename applied to the URL
Sanitize_Apply ==
    /\ answer = <<>>
    /\ answer' = <<_sanitize_filename(probe)>>
    /\ UNCHANGED pureVars

NextSanitize == Sanitize_Apply

SpecSanitize == InitSanitize /\ [][NextSanitize]_vars

\* the longest path of a URL normalised twice
MaxKeyPathLen == 4

\* URLs with and without a scheme and an authority, in either case, with
\* paths that hold colons, semicolons and runs of slashes
RenormalizeProbes ==
    {sch \o auth \o path \o q \o f :
        sch \in {<<>>, HTTP \o <<":">>, <<"H","T","T","P",":">>,
                 <<"f","o","o",":">>},
        auth \in {<<>>, <<"/","/">>, <<"/","/","s">>},
        path \in Words({"a", "/", ";", ":"}, MaxKeyPathLen),
        q \in QueryParts,
        f \in FragmentParts}

InitRenormalize == Idle /\ probe \in RenormalizeProbes

\* self.visited_urls.add(normalized_url), for the URL
Renormalize_Add ==
    /\ answer = <<>>
    /\ visited_urls = {}
    /\ visited_urls' = {_normalize_url(probe)}
    /\ UNCHANGED <<base_url, domain, ignore_paths, delay, site_data, fs,
                   stack, status, log, last, llms_txt, llms_full, site,
                   probe, answer>>

\* normalized_url of the URL, _normalize_url of that, and
\* _is_new_page(normalized_url)
Renormalize_Apply ==
    /\ answer = <<>>
    /\ answer' = <<_normalize_url(probe),
                   _normalize_url(_normalize_url(probe)),
                   _is_new_page(_normalize_url(probe))>>
    /\ UNCHANGED pureVars

NextRenormalize ==
    \/ Renormalize_Add
    \/ Renormalize_Apply

SpecRenormalize == InitRenormalize /\ [][NextRenormalize]_vars

---------------------------------------------------------------------------
(* The claims *)

\* the requests the crawl has made, in order
Gets == SelectSeq(log, LAMBDA e : e.op = "get")

\* the members of a sequence
Elems(seq) == {seq[i] : i \in DOMAIN seq}

\* a URL as the specification reads it: scheme, host, path, query and
\* fragment, the path being all that lies between the host and ? or #
PathOf(url) == urlsplit(url).path

HostOf(url) == urlsplit(url).netloc

\* a normalised key: no query, no fragment, a path ending in one slash
KeyShaped(key) ==
    /\ urlsplit(key).query = <<>>
    /\ urlsplit(key).fragment = <<>>
    /\ EndsWith(PathOf(key), <<"/">>)
    /\ ~EndsWith(PathOf(key), <<"/", "/">>)

\* C5: URLs that differ only in fragment, query string or the presence of a
\* trailing slash on the path normalise to the same key, and that key has an
\* empty query, an empty fragment and a path ending in exactly one slash.
C5_SpellingsShareKey ==
    answer # <<>> =>
        /\ answer[1] = answer[2]
        /\ KeyShaped(answer[1])
        /\ KeyShaped(answer[2])

\* a path ends in .ext
HasExtension(path, ext) == EndsWith(path, <<".">> \o ext)

\* C6: the filter rejects every URL whose host is not the site host and every
\* URL whose path ends in .png, .jpg, .pdf, .css or .js; it accepts a URL on
\* the site host with no ignored prefix whose path ends in .html or has no
\* extension at all.
C6_ScopeFilter ==
    answer # <<>> =>
        /\ HostOf(probe) # domain => answer[1] = FALSE
        /\ (\E e \in BlockedExtensions : HasExtension(PathOf(probe), e))
              => answer[1] = FALSE
        /\ (/\ HostOf(probe) = domain
            /\ ~\E p \in ignore_paths : StartsWith(probe, p)
            /\ \/ HasExtension(PathOf(probe), <<"h","t","m","l">>)
               \/ "." \notin Elems(PathOf(probe)))
              => answer[1] = TRUE

\* C1: during one crawl run fetch is invoked at most once per normalized
\* key, however many link paths or raw spellings lead to it, and the number
\* of fetch calls equals the number of keys in the visited set.
C1_FetchOncePerKey ==
    /\ \A i, j \in DOMAIN Gets :
          i # j => _normalize_url(Gets[i].url) # _normalize_url(Gets[j].url)
    /\ Len(Gets) = Cardinality(visited_urls)

\* a link led back, under another spelling, to a key already fetched
C1_Witness ==
    /\ last.did = "revisit"
    /\ \E e \in Elems(Gets) :
          /\ e.url # last.url
          /\ _normalize_url(e.url) = _normalize_url(last.url)

\* the entries of the records whose body file the crawl wrote and that is
\* still in place, in crawl order
RECURSIVE StoredEntries(_, _)
StoredEntries(pages, files) ==
    IF pages = <<>> THEN <<>>
    ELSE (IF MarkdownPath(Head(pages).md_path) \in DOMAIN files
          THEN <<FullEntry(Head(pages).title,
                           files[MarkdownPath(Head(pages).md_path)])>>
          ELSE <<>>)
         \o StoredEntries(Tail(pages), files)

\* C2: the full document holds exactly one entry (heading, stored body,
\* separator) for every record whose body file was written during the crawl
\* and is still in place, in crawl order, none skipped.
C2_FullDocumentComplete ==
    status = "done" => llms_full = StoredEntries(site_data, fs)

\* C3: every page whose fetch returned content is recorded, whatever the
\* state of its title, description and body root: extraction never aborts
\* the crawl.
C3_ExtractionNeverAborts ==
    /\ status # "aborted"
    /\ \A e \in Elems(Gets) :
          e.ok => \E r \in Elems(site_data) : r.url = e.url

\* C4: a fetch failure on one page never aborts the run: a run in which a
\* fetch failed goes on with the links that follow and reaches aggregation,
\* it is never cut short.
C4_FetchFailureNeverAborts ==
    (\E e \in Elems(Gets) : ~e.ok) => status # "aborted"

\* C7: every URL fetched, other than the seed, passed the scope filter when
\* it was discovered; the seed is fetched without the filter being applied.
C7_FetchedLinksPassedFilter ==
    Gets # <<>> =>
        /\ Gets[1].url = base_url
        /\ \A i \in 2..Len(Gets) :
              ValidParsed(Gets[i].url, urlparse(Gets[i].url),
                          domain, ignore_paths)

\* the seed fails the filter and was fetched all the same, and links found
\* on it were fetched after it
C7_Witness ==
    /\ status = "done"
    /\ Len(Gets) >= 2
    /\ Gets[1].url = base_url
    /\ ~ValidParsed(base_url, urlparse(base_url), domain, ignore_paths)

\* a record is core when its URL, lower-cased, holds one of the keywords
CoreRecord(r) ==
    \E kw \in {<<"d","o","c">>, <<"g","u","i","d","e">>, <<"a","p","i">>,
               <<"h","e","l","p">>} : Contains(Lower(r.url), kw)

\* the lines of the index that follow a heading, up to the next heading
RECURSIVE UpToHeading(_)
UpToHeading(lines) ==
    IF lines = <<>> \/ Head(lines) \in {CoreHeading, OptionalHeading}
    THEN <<>>
    ELSE <<Head(lines)>> \o UpToHeading(Tail(lines))

RECURSIVE LinesUnder(_, _)
LinesUnder(heading, lines) ==
    IF lines = <<>> THEN <<>>
    ELSE IF Head(lines) = heading THEN UpToHeading(Tail(lines))
    ELSE LinesUnder(heading, Tail(lines))

\* C8: aggregation puts every record in exactly one group, core if its URL
\* holds doc, guide, api or help whatever the case and optional otherwise,
\* and within each group the bullets are in crawl order.
C8_GroupsPartitionInOrder ==
    status = "done" =>
        /\ LinesUnder(CoreHeading, llms_txt)
              = Bullets(SelectSeq(site_data, CoreRecord), base_url)
        /\ LinesUnder(OptionalHeading, llms_txt)
              = Bullets(SelectSeq(site_data, LAMBDA r : ~CoreRecord(r)),
                        base_url)

\* three records, a core one crawled between two optional ones
C8_Witness ==
    /\ status = "done"
    /\ Len(site_data) = 3
    /\ ~CoreRecord(site_data[1])
    /\ CoreRecord(site_data[2])
    /\ ~CoreRecord(site_data[3])

\* C9, as claimed: a URL that contains docs/api/intro is core and a URL that
\* contains blog/2024/post is optional, whatever the rest of the URL is.
C9_Original ==
    answer # <<>> =>
        /\ Contains(probe, DocsApiIntro) => answer[1] = "core"
        /\ Contains(probe, BlogPost) => answer[1] = "optional"

\* C9, amended: a URL that contains docs/api/intro is core; a URL that
\* contains blog/2024/post is optional provided that the URL, lower-cased,
\* contains none of doc, guide, api and help.
C9_Amended ==
    answer # <<>> =>
        /\ Contains(probe, DocsApiIntro) => answer[1] = "core"
        /\ (/\ Contains(probe, BlogPost)
            /\ ~\E kw \in Keywords : Contains(Lower(probe), kw))
              => answer[1] = "optional"

\* a URL with blog/2024/post and no keyword was classified optional
C9_Witness ==
    /\ answer = <<"optional">>
    /\ Contains(probe, BlogPost)

\* C10: the index holds the Core Documentation heading exactly when a record
\* is core and the Optional heading exactly when a record is optional; with
\* no record it holds the site heading and the blurb only.
C10_HeadingsIffRecords ==
    status = "done" =>
        /\ CoreHeading \in Elems(llms_txt)
              <=> \E r \in Elems(site_data) : CoreRecord(r)
        /\ OptionalHeading \in Elems(llms_txt)
              <=> \E r \in Elems(site_data) : ~CoreRecord(r)
        /\ site_data = <<>> => llms_txt = <<SiteHeading(domain), Blurb>>

\* every record is core and the index has no Optional heading
C10_Witness ==
    /\ status = "done"
    /\ site_data # <<>>
    /\ CoreHeading \in Elems(llms_txt)
    /\ OptionalHeading \notin Elems(llms_txt)

\* the positions of the records whose body generate() finds
Located == {i \in DOMAIN site_data : RecordPath(site_data[i]) \in DOMAIN fs}

\* how many lines of a list are the given line
Occurrences(line, lines) == Cardinality({i \in DOMAIN lines : lines[i] = line})

\* C11: every record yields exactly one bullet of the index, in exactly one
\* of its two sections, also a record whose stored body is not found when the
\* full document is built; such a record is left out of the full document
\* only, and generate() completes.
C11_EveryRecordOneBullet ==
    status = "done" =>
        /\ \A i \in DOMAIN site_data :
              Occurrences(Bullet(site_data[i], base_url),
                          LinesUnder(CoreHeading, llms_txt))
              + Occurrences(Bullet(site_data[i], base_url),
                            LinesUnder(OptionalHeading, llms_txt)) = 1
        /\ Len(LinesUnder(CoreHeading, llms_txt))
           + Len(LinesUnder(OptionalHeading, llms_txt)) = Len(site_data)
        /\ Len(llms_full) = Cardinality(Located)

\* generate() completed with a record whose body it found and a record whose
\* body it did not find
C11_Witness ==
    /\ status = "done"
    /\ Located # {}
    /\ Located # DOMAIN site_data
    /\ Len(llms_full) < Len(site_data)

\* a file name matches ^[a-zA-Z0-9-]+\.md$ and has no hyphen before .md
KeyWellFormed(key) ==
    /\ Len(key) > 3
    /\ SubSeq(key, Len(key) - 2, Len(key)) = <<".", "m", "d">>
    /\ \A i \in 1..(Len(key) - 3) :
          key[i] \in Elems(LowerLetters) \cup Elems(UpperLetters)
                        \cup Digits \cup {"-"}
    /\ key[Len(key) - 3] # "-"

\* C12: for every URL path the storage key matches ^[a-zA-Z0-9-]+\.md$ and
\* has no hyphen immediately before the .md extension; an empty path yields
\* index.md.
C12_StorageKeyShape ==
    answer # <<>> =>
        /\ KeyWellFormed(answer[1])
        /\ PathOf(probe) \in {<<>>, <<"/">>}
              => answer[1] = <<"i","n","d","e","x",".","m","d">>

\* C13: every fetch attempt, the seed's included, is immediately preceded by
\* one delay of the configured length, whether the fetch succeeds or fails;
\* a URL skipped because its key is already visited incurs neither a delay
\* nor a fetch.
C13_DelayBeforeEveryFetch ==
    /\ [](\A i \in DOMAIN log :
            IF log[i].op = "get"
            THEN /\ i > 1
                 /\ log[i - 1].op = "sleep"
                 /\ log[i - 1].secs = delay
            ELSE /\ i < Len(log)
                 /\ log[i + 1].op = "get")
    /\ [][last'.did = "revisit" => log' = log]_vars

\* a fetch that failed and a fetch that succeeded were each delayed, and a
\* link was then skipped as visited
C13_Witness ==
    /\ last.did = "revisit"
    /\ \E i, j \in DOMAIN Gets : Gets[i].ok /\ ~Gets[j].ok
    /\ Len(log) = 2 * Len(Gets)

\* C14: a discovered link that cannot be resolved to an absolute URL is
\* silently dropped: the step makes no fetch, does not abort the crawl, and
\* leaves the link loop of the page at its next link.
C14_UnresolvableLinkDropped ==
    [][last'.did = "unresolved" =>
          /\ log' = log
          /\ status' = "crawling"
          /\ stack' = Advanced(stack)]_vars

\* the keys of the site: of the seed and of every link its pages can carry
SiteKeys ==
    {_normalize_url(base_url)}
    \cup {_normalize_url(urljoin(SiteRoot, h)) :
             h \in {g \in site.hrefs : ~JoinRaises(SiteRoot, g)}}

\* the turns the link loops that are under way can still take, and their
\* returns
RECURSIVE LoopWork(_)
LoopWork(stk) ==
    IF stk = <<>> THEN 0
    ELSE (MaxLinks - Head(stk).n) + 1 + LoopWork(Tail(stk))

\* what is left of the run: every key not yet visited can cost one link loop
Work(visited, stk, st) ==
    Cardinality(SiteKeys \ visited) * (MaxLinks + 2)
    + LoopWork(stk)
    + (IF st = "new" THEN 2 ELSE IF st = "crawling" THEN 1 ELSE 0)

\* C15: on every finite link graph, cycles and self-links included, the crawl
\* terminates (every step lessens the work that is left) with the reachable
\* in-scope graph exhausted: every link the filter lets through has its key
\* in the visited set once its step is taken, and no run ends before its
\* link loops have run to their end.
C15_TerminatesExhausted ==
    /\ [](status # "aborted")
    /\ [][Work(visited_urls', stack', status')
            < Work(visited_urls, stack, status)]_vars
    /\ [][last'.did \in {"revisit", "failed", "recorded"}
            => _normalize_url(last'.url) \in visited_urls']_vars

\* C16: at the moment the fetch of a URL is attempted its normalized key is
\* already in the visited set, and the visited set only grows: no key is
\* removed during a run, not even after a failed fetch.
C16_VisitedBeforeFetch ==
    /\ [](\A e \in Elems(Gets) :
            e.marked /\ _normalize_url(e.url) \in visited_urls)
    /\ [][visited_urls \subseteq visited_urls']_vars

\* a fetch failed, the crawl went on to fetch another page, and the key of
\* the failed one is still in the visited set at the end of the run
C16_Witness ==
    /\ status = "done"
    /\ \E i, j \in DOMAIN Gets :
          /\ i < j
          /\ ~Gets[i].ok
          /\ Gets[i].marked
          /\ _normalize_url(Gets[i].url) \in visited_urls

\* C17: when the fetch of a URL returns no content, its key stays in the
\* visited set, no record is appended and no body file is written for it,
\* and its outbound links are not enumerated: the step leaves the record
\* sequence and the files as they were and opens no link loop, and no later
\* step records the URL.
C17_FailedFetchLeavesNoTrace ==
    /\ [][last'.did = "failed" =>
            /\ _normalize_url(last'.url) \in visited_urls'
            /\ site_data' = site_data
            /\ fs' = fs
            /\ stack' = IF stack = <<>> THEN <<>> ELSE Advanced(stack)]_vars
    /\ [](\A e \in Elems(Gets) :
            ~e.ok =>
                /\ _normalize_url(e.url) \in visited_urls
                /\ \A r \in Elems(site_data) :
                      _normalize_url(r.url) # _normalize_url(e.url)
                /\ \A f \in Elems(stack) : f.url # e.url)

\* the fetch of a link has just failed, in a crawl that has records
C17_Witness ==
    /\ last.did = "failed"
    /\ stack # <<>>
    /\ site_data # <<>>
    /\ \E e \in Elems(Gets) : ~e.ok /\ e.url = last.url

\* the URLs whose fetch returned content, in the order of the requests
FetchedUrls(gets) ==
    IF gets = <<>> THEN <<>>
    ELSE [i \in 1..Len(SelectSeq(gets, LAMBDA e : e.ok)) |->
            SelectSeq(gets, LAMBDA e : e.ok)[i].url]

\* C18: no two records have source URLs with the same normalized key; the
\* source URL of a record is the raw spelling that first reached the crawl
\* step for its key (the one that was fetched), not the normalized form and
\* not a later spelling, which adds no record; the key of every record is in
\* the visited set.
C18_RecordKeepsFirstSpelling ==
    /\ [](/\ \A i, j \in DOMAIN site_data :
                i # j => _normalize_url(site_data[i].url)
                            # _normalize_url(site_data[j].url)
          /\ \A r \in Elems(site_data) :
                /\ _normalize_url(r.url) \in visited_urls
                /\ \E e \in Elems(Gets) : e.ok /\ e.url = r.url
          /\ Len(site_data) <= Len(FetchedUrls(Gets))
          /\ \A i \in DOMAIN site_data :
                site_data[i].url = FetchedUrls(Gets)[i])
    /\ [][last'.did = "revisit" => site_data' = site_data]_vars

\* a key has a record under the spelling that was fetched, which is not the
\* normalized form, and a later spelling of the same key was skipped
C18_Witness ==
    /\ last.did = "revisit"
    /\ \E r \in Elems(site_data) :
          /\ r.url # _normalize_url(r.url)
          /\ r.url # last.url
          /\ _normalize_url(r.url) = _normalize_url(last.url)

\* the request made for a URL, and the page whose link led to it
GetOf(url) == CHOOSE e \in Elems(Gets) : e.url = url

\* a fetched URL, the page that linked to it, the page that linked to that
\* one, and so on up to the seed
RECURSIVE Lineage(_)
Lineage(url) ==
    IF url = <<>> THEN {} ELSE {url} \cup Lineage(GetOf(url).parent)

\* C19: the records are in the depth-first pre-order of the crawl.  A page is
\* recorded before any page first reached through it; the page fetched next
\* is reached from the page just fetched or from one on its way up to the
\* seed; the links of a page are taken in order, the link loops under way
\* being those of a page, of the page that led to it, and so on, each at the
\* link that led to the next; and a step makes at most one request.
C19_DepthFirstPreOrder ==
    /\ [](/\ \A k \in 2..Len(Gets) :
                /\ Gets[k].parent \in Lineage(Gets[k - 1].url)
                /\ GetOf(Gets[k].parent).ok
          /\ \A i, j \in DOMAIN Gets :
                (i < j /\ Gets[i].parent = Gets[j].parent)
                    => Gets[i].idx < Gets[j].idx
          /\ \A j \in DOMAIN site_data :
                GetOf(site_data[j].url).parent # <<>>
                    => \E i \in 1..(j - 1) :
                          site_data[i].url = GetOf(site_data[j].url).parent
          /\ \A k \in 2..Len(stack) :
                /\ GetOf(stack[k].url).parent = stack[k - 1].url
                /\ GetOf(stack[k].url).idx = stack[k - 1].n)
    /\ [][Len(log') \in {Len(log), Len(log) + 2}]_vars

\* four pages recorded: the seed, the page of its first link, a page reached
\* through that one, and only then the page of the seed's second link
C19_Witness ==
    /\ status = "done"
    /\ Len(site_data) = 4
    /\ Len(Gets) = 4
    /\ Gets[2].parent = Gets[1].url
    /\ Gets[3].parent = Gets[2].url
    /\ Gets[4].parent = Gets[1].url
    /\ Gets[2].idx < Gets[4].idx

\* C20: normalize is idempotent, normalize(normalize(u)) = normalize(u), so
\* the visited check of the crawl step, which normalizes the normalized key a
\* second time, tests exactly the key that is added to the visited set.
C20_NormalizeIdempotent ==
    answer # <<>> =>
        /\ answer[2] = answer[1]
        /\ answer[3] = (answer[1] \notin visited_urls)

=============================================================================
